---- MODULE Spec2Model ----
(***************************************************************************)
(* h2 error.rs: the Error value, its Kind, the conversions that build it,  *)
(* the inspection operations and the Display rendering.                    *)
(*                                                                         *)
(* The model follows one Error value through its life: a conversion builds *)
(* it, the borrowing operations inspect it, into_io or a drop consumes it. *)
(* The Arc<io::Error> cells live in a small heap that other holders (the   *)
(* protocol engine) share.                                                 *)
(***************************************************************************)
EXTENDS Integers, Sequences, FiniteSets, TLC

VARIABLES err, heap, origin, first, cur, lastop

vars == <<err, heap, origin, first, cur, lastop>>

-----------------------------------------------------------------------------
(* Bounds *)

\* number of Arc<io::Error> cells that can be allocated at once
MaxArcs == 1

\* number of holders of one Arc other than the Error itself
MaxExt == 2

-----------------------------------------------------------------------------
(* Option<T> *)

None == [some |-> FALSE]

Some(v) == [some |-> TRUE, val |-> v]

-----------------------------------------------------------------------------
(* External value domains *)

Reasons == {"NO_ERROR", "PROTOCOL_ERROR"}

Initiators == {"Local", "Remote"}

StreamIds == {1, 3}

UserErrors == {"InactiveStreamId", "UnexpectedFrameType"}

\* Bytes payloads of a GO_AWAY frame: empty, non-printable, printable and
\* escaped
DebugPayloads == {<< >>, <<1, 2, 3>>, <<104, 34, 10>>}

\* canonical display text of a Reason
ReasonText(r) ==
    CASE r = "NO_ERROR" -> "no error"
      [] r = "PROTOCOL_ERROR" -> "protocol error"

\* canonical display text of an Initiator
InitiatorText(i) ==
    CASE i = "Local" -> "local"
      [] i = "Remote" -> "remote"

\* display text of a UserError
UserErrorText(u) ==
    CASE u = "InactiveStreamId" -> "inactive stream"
      [] u = "UnexpectedFrameType" -> "unexpected frame type"

-----------------------------------------------------------------------------
(* std::io::Error: its representations, kind() and Display *)

NoIo == [repr |-> "Free", kind |-> "", code |-> 0, msg |-> ""]

IoOs(code) == [repr |-> "Os", kind |-> "", code |-> code, msg |-> ""]

IoSimple(kind) == [repr |-> "Simple", kind |-> kind, code |-> 0, msg |-> ""]

IoCustom(kind, msg) == [repr |-> "Custom", kind |-> kind, code |-> 0, msg |-> msg]

\* transport faults the transport can raise: an OS error and a bare kind
IoErrors == {IoOs(32), IoSimple("UnexpectedEof")}

\* sys::decode_error_kind, for the errno values used here
decode_error_kind(code) ==
    CASE code = 32 -> "BrokenPipe"
      [] code = 104 -> "ConnectionReset"
      [] OTHER -> "Uncategorized"

\* sys::os::error_string, for the errno values used here
error_string(code) ==
    CASE code = 32 -> "Broken pipe"
      [] code = 104 -> "Connection reset by peer"
      [] OTHER -> "Unknown error"

\* io::ErrorKind::description
kind_description(kind) ==
    CASE kind = "UnexpectedEof" -> "unexpected end of file"
      [] kind = "BrokenPipe" -> "broken pipe"
      [] kind = "ConnectionReset" -> "connection reset"
      [] kind = "Other" -> "other error"
      [] OTHER -> "uncategorized error"

\* io::Error::kind
io_kind(e) ==
    IF e.repr = "Os" THEN decode_error_kind(e.code) ELSE e.kind

\* <io::Error as Display>::fmt, i.e. e.to_string()
io_to_string(e) ==
    CASE e.repr = "Os" ->
           error_string(e.code) \o " (os error " \o ToString(e.code) \o ")"
      [] e.repr = "Simple" -> kind_description(e.kind)
      [] OTHER -> e.msg

\* io::Error::new(kind, String): a custom error around the message
io_new(kind, msg) == IoCustom(kind, msg)

-----------------------------------------------------------------------------
(* <Bytes as Debug>::fmt *)

HexDigits == <<"0", "1", "2", "3", "4", "5", "6", "7",
               "8", "9", "a", "b", "c", "d", "e", "f">>

\* the printable ASCII characters 0x20 .. 0x5f
AsciiLow ==
    <<" ", "!", "\"", "#", "$", "%", "&", "'", "(", ")", "*", "+", ",", "-",
      ".", "/", "0", "1", "2", "3", "4", "5", "6", "7", "8", "9", ":", ";",
      "<", "=", ">", "?", "@", "A", "B", "C", "D", "E", "F", "G", "H", "I",
      "J", "K", "L", "M", "N", "O", "P", "Q", "R", "S", "T", "U", "V", "W",
      "X", "Y", "Z", "[", "\\", "]", "^", "_">>

\* the printable ASCII characters 0x61 .. 0x7e
AsciiHigh ==
    <<"a", "b", "c", "d", "e", "f", "g", "h", "i", "j", "k", "l", "m", "n",
      "o", "p", "q", "r", "s", "t", "u", "v", "w", "x", "y", "z", "{", "|",
      "}", "~">>

\* b as char, for a printable byte; the grave accent 0x60 has no TLA+ string
\* literal and no payload of DebugPayloads holds it
AsciiChar(b) == IF b < 96 THEN AsciiLow[b - 31] ELSE AsciiHigh[b - 96]

\* one byte of a byte-string literal
ByteEscape(b) ==
    CASE b = 10 -> "\\n"
      [] b = 13 -> "\\r"
      [] b = 9 -> "\\t"
      [] b = 92 \/ b = 34 -> "\\" \o AsciiChar(b)
      [] b = 0 -> "\\0"
      [] b >= 32 /\ b < 127 -> AsciiChar(b)
      [] OTHER -> "\\x" \o HexDigits[(b \div 16) + 1] \o HexDigits[(b % 16) + 1]

RECURSIVE BytesBody(_)
BytesBody(data) ==
    IF data = << >> THEN ""
    ELSE ByteEscape(Head(data)) \o BytesBody(Tail(data))

\* {:?} of a Bytes value: b"..." with byte escapes
BytesDebug(data) == "b\"" \o BytesBody(data) \o "\""

-----------------------------------------------------------------------------
(* The heap of Arc<io::Error> cells *)

Arcs == 1 .. MaxArcs

FreeCell == [val |-> NoIo, ext |-> 0]

\* the Error e holds a reference to cell a
Holds(e, a) == e.kind.tag = "Io" /\ e.kind.arc = a

\* Arc::strong_count
Strong(e, h, a) == h[a].ext + (IF Holds(e, a) THEN 1 ELSE 0)

FreeArcs(e, h) == {a \in Arcs : Strong(e, h, a) = 0}

\* dropping the reference the Error holds: the cell is freed with its last
\* reference, and is untouched while another holder remains
DropRef(h, a) ==
    IF h[a].ext = 0 THEN [h EXCEPT ![a] = FreeCell] ELSE h

-----------------------------------------------------------------------------
(* Kind and Error *)

Reset(stream_id, rsn, initiator) ==
    [tag |-> "Reset", stream_id |-> stream_id, reason |-> rsn,
     initiator |-> initiator]

GoAway(debug_data, rsn, initiator) ==
    [tag |-> "GoAway", debug_data |-> debug_data, reason |-> rsn,
     initiator |-> initiator]

KindReason(rsn) == [tag |-> "Reason", reason |-> rsn]

User(e) == [tag |-> "User", e |-> e]

Io(a) == [tag |-> "Io", arc |-> a]

Error(kind) == [kind |-> kind]

\* the slot once the Error has been moved out or dropped
NoError == Error([tag |-> "Moved"])

Kinds == {"Reset", "GoAway", "Reason", "User", "Io"}

-----------------------------------------------------------------------------
(* Inspection operations *)

reason_with_bare_reason(self) ==
    IF self.kind.tag \in {"Reset", "GoAway", "Reason"}
    THEN Some(self.kind.reason)
    ELSE None

reason(self) ==
    IF self.kind.tag \in {"Reset", "GoAway"}
    THEN Some(self.kind.reason)
    ELSE None

is_io_never(self) == FALSE

is_io_matches_user(self) == self.kind.tag = "User"

is_io(self) == self.kind.tag = "Io"

get_io(self, h) ==
    IF self.kind.tag = "Io" THEN Some(h[self.kind.arc].val) ELSE None

into_io_other_kind(self, h) ==
    IF self.kind.tag = "Io"
    THEN Some(io_new("Other", io_to_string(h[self.kind.arc].val)))
    ELSE None

into_io(self, h) ==
    IF self.kind.tag = "Io"
    THEN Some(io_new(io_kind(h[self.kind.arc].val),
                     io_to_string(h[self.kind.arc].val)))
    ELSE None

-----------------------------------------------------------------------------
(* Conversions *)

from_io(a) == Error(Io(a))

from_proto(src) ==
    Error(CASE src.tag = "Reset" ->
                 Reset(src.stream_id, src.reason, src.initiator)
            [] src.tag = "GoAway" ->
                 GoAway(src.debug_data, src.reason, src.initiator)
            [] src.tag = "Io" -> Io(src.arc))

from_reason(src) == Error(KindReason(src))

from_user(src) == Error(User(src))

SendUser(e) == [tag |-> "User", e |-> e]

SendConnection(e) == [tag |-> "Connection", e |-> e]

from_send_drops_payload(src) ==
    IF src.tag = "User" THEN from_user(src.e)
    ELSE IF src.e.tag = "GoAway"
         THEN from_proto(GoAway(<< >>, src.e.reason, src.e.initiator))
         ELSE from_proto(src.e)

from_send(src) ==
    IF src.tag = "User" THEN from_user(src.e) ELSE from_proto(src.e)

-----------------------------------------------------------------------------
(* Display *)

fmt_always_parenthesised(self, h) ==
    CASE self.kind.tag = "Reset" ->
           "stream reset by " \o InitiatorText(self.kind.initiator) \o ": "
             \o ReasonText(self.kind.reason)
      [] self.kind.tag = "GoAway" ->
           "go away from " \o InitiatorText(self.kind.initiator) \o ": "
             \o ReasonText(self.kind.reason)
             \o " (" \o BytesDebug(self.kind.debug_data) \o ")"
      [] self.kind.tag = "Reason" ->
           "protocol error: " \o ReasonText(self.kind.reason)
      [] self.kind.tag = "User" -> "user error: " \o UserErrorText(self.kind.e)
      [] self.kind.tag = "Io" -> io_to_string(h[self.kind.arc].val)

fmt_no_payload(self, h) ==
    CASE self.kind.tag = "Reset" ->
           "stream reset by " \o InitiatorText(self.kind.initiator) \o ": "
             \o ReasonText(self.kind.reason)
      [] self.kind.tag = "GoAway" ->
           "go away from " \o InitiatorText(self.kind.initiator) \o ": "
             \o ReasonText(self.kind.reason)
      [] self.kind.tag = "Reason" ->
           "protocol error: " \o ReasonText(self.kind.reason)
      [] self.kind.tag = "User" -> "user error: " \o UserErrorText(self.kind.e)
      [] self.kind.tag = "Io" -> io_to_string(h[self.kind.arc].val)

fmt_user_bare(self, h) ==
    CASE self.kind.tag = "Reset" ->
           "stream reset by " \o InitiatorText(self.kind.initiator) \o ": "
             \o ReasonText(self.kind.reason)
      [] self.kind.tag = "GoAway" ->
           "go away from " \o InitiatorText(self.kind.initiator) \o ": "
             \o ReasonText(self.kind.reason)
             \o (IF self.kind.debug_data # << >>
                 THEN " (" \o BytesDebug(self.kind.debug_data) \o ")"
                 ELSE "")
      [] self.kind.tag = "Reason" ->
           "protocol error: " \o ReasonText(self.kind.reason)
      [] self.kind.tag = "User" -> UserErrorText(self.kind.e)
      [] self.kind.tag = "Io" -> io_to_string(h[self.kind.arc].val)

fmt(self, h) ==
    CASE self.kind.tag = "Reset" ->
           "stream reset by " \o InitiatorText(self.kind.initiator) \o ": "
             \o ReasonText(self.kind.reason)
      [] self.kind.tag = "GoAway" ->
           "go away from " \o InitiatorText(self.kind.initiator) \o ": "
             \o ReasonText(self.kind.reason)
             \o (IF self.kind.debug_data # << >>
                 THEN " (" \o BytesDebug(self.kind.debug_data) \o ")"
                 ELSE "")
      [] self.kind.tag = "Reason" ->
           "protocol error: " \o ReasonText(self.kind.reason)
      [] self.kind.tag = "User" -> "user error: " \o UserErrorText(self.kind.e)
      [] self.kind.tag = "Io" -> io_to_string(h[self.kind.arc].val)

-----------------------------------------------------------------------------
(* History of the Error now in the slot *)

NoProto == [tag |-> "None"]

\* the conversion that built the Error and its input
Origin(path, proto, rsn, user, fault) ==
    [path |-> path, proto |-> proto, reason |-> rsn, user |-> user,
     fault |-> fault]

NoOrigin == Origin("none", NoProto, "", "", NoIo)

NotCalled == [called |-> FALSE]

Called(r) == [called |-> TRUE, res |-> r]

\* the results of the operations: of the first call and of the latest call
NoCalls ==
    [reason |-> NotCalled, is_io |-> NotCalled, get_io |-> NotCalled,
     fmt |-> NotCalled, into_io |-> NotCalled]

\* the protocol-engine errors that exist in a state: the Io case carries an
\* Arc some other holder owns
ProtoErrors(h) ==
    {Reset(id, r, i) : id \in StreamIds, r \in Reasons, i \in Initiators}
      \cup {GoAway(d, r, i) : d \in DebugPayloads, r \in Reasons, i \in Initiators}
      \cup {Io(a) : a \in {b \in Arcs : h[b].ext > 0}}

\* the transport fault a protocol-engine error carries, if any
ProtoFault(src, h) == IF src.tag = "Io" THEN h[src.arc].val ELSE NoIo

\* moving a protocol-engine error into the conversion moves its Arc with it
MoveArc(src, h) ==
    IF src.tag = "Io"
    THEN [h EXCEPT ![src.arc].ext = h[src.arc].ext - 1]
    ELSE h

Built(e, o, op) ==
    /\ err' = e
    /\ origin' = o
    /\ first' = NoCalls
    /\ cur' = NoCalls
    /\ lastop' = op

-----------------------------------------------------------------------------
(* Initial state: no Error built yet, no transport fault raised *)

Init ==
    /\ err = NoError
    /\ heap = [a \in Arcs |-> FreeCell]
    /\ origin = NoOrigin
    /\ first = NoCalls
    /\ cur = NoCalls
    /\ lastop = "init"

-----------------------------------------------------------------------------
(* The environment: other holders of the shared transport faults *)

\* the protocol engine wraps a transport fault in an Arc of its own
ProtoWrapIo ==
    /\ FreeArcs(err, heap) # {}
    /\ \E f \in IoErrors :
         LET a == CHOOSE x \in FreeArcs(err, heap) :
                    \A y \in FreeArcs(err, heap) : x <= y
         IN heap' = [heap EXCEPT ![a] = [val |-> f, ext |-> 1]]
    /\ lastop' = "env"
    /\ UNCHANGED <<err, origin, first, cur>>

\* another holder clones its Arc
ArcClone ==
    /\ \E a \in Arcs :
         /\ heap[a].ext > 0
         /\ heap[a].ext < MaxExt
         /\ heap' = [heap EXCEPT ![a].ext = heap[a].ext + 1]
    /\ lastop' = "env"
    /\ UNCHANGED <<err, origin, first, cur>>

\* another holder drops its Arc
ArcDrop ==
    /\ \E a \in Arcs :
         /\ heap[a].ext > 0
         /\ heap' = IF Strong(err, heap, a) = 1
                    THEN [heap EXCEPT ![a] = FreeCell]
                    ELSE [heap EXCEPT ![a].ext = heap[a].ext - 1]
    /\ lastop' = "env"
    /\ UNCHANGED <<err, origin, first, cur>>

-----------------------------------------------------------------------------
(* Conversions into Error *)

\* Error::from_io(err): Arc::new(err), then Kind::Io
Do_from_io ==
    /\ err = NoError
    /\ FreeArcs(err, heap) # {}
    /\ \E f \in IoErrors :
         LET a == CHOOSE x \in FreeArcs(err, heap) :
                    \A y \in FreeArcs(err, heap) : x <= y
         IN /\ heap' = [heap EXCEPT ![a] = [val |-> f, ext |-> 0]]
            /\ Built(from_io(a), Origin("from_io", NoProto, "", "", f),
                     "from_io")

\* <Error as From<proto::Error>>::from
Do_from_proto ==
    /\ err = NoError
    /\ \E src \in ProtoErrors(heap) :
         /\ heap' = MoveArc(src, heap)
         /\ Built(from_proto(src),
                  Origin("proto", src, "", "", ProtoFault(src, heap)),
                  "from_proto")

\* <Error as From<Reason>>::from
Do_from_reason ==
    /\ err = NoError
    /\ \E src \in Reasons :
         Built(from_reason(src), Origin("reason", NoProto, src, "", NoIo),
               "from_reason")
    /\ UNCHANGED heap

\* <Error as From<UserError>>::from
Do_from_user ==
    /\ err = NoError
    /\ \E src \in UserErrors :
         Built(from_user(src), Origin("user", NoProto, "", src, NoIo),
               "from_user")
    /\ UNCHANGED heap

\* <Error as From<SendError>>::from, SendError::User
Do_from_send_user ==
    /\ err = NoError
    /\ \E u \in UserErrors :
         Built(from_send(SendUser(u)),
               Origin("send_user", NoProto, "", u, NoIo), "from_send")
    /\ UNCHANGED heap

\* <Error as From<SendError>>::from, SendError::Connection
Do_from_send_connection ==
    /\ err = NoError
    /\ \E e \in ProtoErrors(heap) :
         /\ heap' = MoveArc(e, heap)
         /\ Built(from_send(SendConnection(e)),
                  Origin("send_connection", e, "", "", ProtoFault(e, heap)),
                  "from_send")

-----------------------------------------------------------------------------
(* Operations on a built Error *)

\* the result r of operation op on &self: nothing but the record of results
\* changes
Borrowed(op, r) ==
    /\ first' = IF first[op].called THEN first
                ELSE [first EXCEPT ![op] = Called(r)]
    /\ cur' = [cur EXCEPT ![op] = Called(r)]
    /\ lastop' = op
    /\ UNCHANGED <<err, heap, origin>>

Do_reason ==
    /\ err # NoError
    /\ Borrowed("reason", reason(err))

Do_is_io ==
    /\ err # NoError
    /\ Borrowed("is_io", is_io(err))

Do_get_io ==
    /\ err # NoError
    /\ Borrowed("get_io", get_io(err, heap))

Do_fmt ==
    /\ err # NoError
    /\ Borrowed("fmt", fmt(err, heap))

\* into_io that moves the fault out of the shared cell
Do_into_io_takes_fault ==
    /\ err # NoError
    /\ first' = [first EXCEPT !["into_io"] = Called(into_io(err, heap))]
    /\ cur' = [cur EXCEPT !["into_io"] = Called(into_io(err, heap))]
    /\ heap' = IF err.kind.tag = "Io"
               THEN [heap EXCEPT ![err.kind.arc].val =
                       io_new(io_kind(heap[err.kind.arc].val), "")]
               ELSE heap
    /\ err' = NoError
    /\ lastop' = "into_io"
    /\ UNCHANGED origin

\* into_io(self): builds the result from the shared fault, then self and the
\* Arc it holds are dropped
Do_into_io ==
    /\ err # NoError
    /\ first' = [first EXCEPT !["into_io"] = Called(into_io(err, heap))]
    /\ cur' = [cur EXCEPT !["into_io"] = Called(into_io(err, heap))]
    /\ heap' = IF err.kind.tag = "Io" THEN DropRef(heap, err.kind.arc)
               ELSE heap
    /\ err' = NoError
    /\ lastop' = "into_io"
    /\ UNCHANGED origin

\* the Error goes out of scope, and its history with it
Do_drop ==
    /\ err # NoError
    /\ heap' = IF err.kind.tag = "Io" THEN DropRef(heap, err.kind.arc)
               ELSE heap
    /\ err' = NoError
    /\ origin' = NoOrigin
    /\ first' = NoCalls
    /\ cur' = NoCalls
    /\ lastop' = "drop"

-----------------------------------------------------------------------------

Next ==
    \/ ProtoWrapIo
    \/ ArcClone
    \/ ArcDrop
    \/ Do_from_io
    \/ Do_from_proto
    \/ Do_from_reason
    \/ Do_from_user
    \/ Do_from_send_user
    \/ Do_from_send_connection
    \/ Do_reason
    \/ Do_is_io
    \/ Do_get_io
    \/ Do_fmt
    \/ Do_into_io
    \/ Do_drop

Spec == Init /\ [][Next]_vars

-----------------------------------------------------------------------------
(* Type invariant *)

TypeOK ==
    /\ err.kind.tag \in Kinds \cup {"Moved"}
    /\ \A a \in Arcs : heap[a].ext \in 0 .. MaxExt
    /\ \A a \in Arcs : (Strong(err, heap, a) = 0) <=> (heap[a].val = NoIo)

-----------------------------------------------------------------------------
(* Properties *)

BorrowOps == {"reason", "is_io", "get_io", "fmt"}

\* the Error in the slot has not been consumed
Alive == err # NoError

\* the originating signal is a stream reset or a go-away
FromSignal == origin.proto.tag \in {"Reset", "GoAway"}

\* the Error was built from a transport fault held by the protocol engine
FromProtoIo ==
    /\ origin.path \in {"proto", "send_connection"}
    /\ origin.proto.tag = "Io"

\* C1: reason() returns Some(r) exactly for the Kinds Reset and GoAway, r
\* being the Reason of the originating reset / go-away signal; for the Kinds
\* Reason, User and Io it returns None.
C1_ReasonIffResetOrGoAway ==
    cur.reason.called =>
      /\ IF FromSignal
         THEN cur.reason.res = Some(origin.proto.reason)
         ELSE cur.reason.res = None
      /\ Alive => (cur.reason.res.some <=> err.kind.tag \in {"Reset", "GoAway"})

W1_ReasonOfGoAway ==
    /\ cur.reason.called
    /\ Alive
    /\ err.kind.tag = "GoAway"
    /\ err.kind.initiator = "Local"
    /\ cur.reason.res = Some("PROTOCOL_ERROR")

\* C2: an Error built from a bare Reason r answers reason() with Some(r).
C2_BareReasonHasReason ==
    (origin.path = "reason" /\ cur.reason.called) =>
      cur.reason.res = Some(origin.reason)

\* C3 as stated: is_io() is true iff get_io() is Some iff the Error was built
\* by from_io; no other conversion yields is_io().
C3_IoIffFromIo ==
    (cur.is_io.called /\ cur.get_io.called) =>
      /\ cur.is_io.res <=> cur.get_io.res.some
      /\ cur.is_io.res <=> origin.path = "from_io"

\* C3 amended: is_io() is true iff get_io() is Some iff the Error was built
\* by from_io or from a protocol-engine error that carries a transport fault
\* (directly or through SendError::Connection).
C3_IoIffTransportFault ==
    (cur.is_io.called /\ cur.get_io.called) =>
      /\ cur.is_io.res <=> cur.get_io.res.some
      /\ cur.is_io.res <=> (origin.path = "from_io" \/ FromProtoIo)
      /\ cur.get_io.res.some => cur.get_io.res.val = origin.fault

W3_IoFromProto ==
    /\ cur.is_io.called
    /\ cur.get_io.called
    /\ cur.is_io.res
    /\ origin.path = "send_connection"

\* C4: into_io() on an Error of Kind Io wrapping fault f returns Some(g), g a
\* newly built fault of f's kind whose text is f's display text; on any other
\* Kind it returns None.
C4_IntoIoKeepsKindAndText ==
    [][lastop' = "into_io" =>
         LET r == cur'.into_io.res
         IN IF err.kind.tag = "Io"
            THEN LET f == heap[err.kind.arc].val
                 IN /\ r.some
                    /\ r.val.repr = "Custom"
                    /\ io_kind(r.val) = io_kind(f)
                    /\ io_to_string(r.val) = io_to_string(f)
            ELSE r = None]_vars

W4_IntoIoOfOsError ==
    /\ lastop = "into_io"
    /\ cur.into_io.res.some
    /\ origin.fault = IoOs(32)
    /\ cur.into_io.res.val # origin.fault

\* C5: the Display text follows the Kind: Reset, GoAway without and with a
\* debug payload, Reason, User, Io; the parenthesised payload appears exactly
\* when the payload is not empty.
C5_DisplayTable ==
    (cur.fmt.called /\ Alive) =>
      LET k == err.kind
          t == cur.fmt.res
      IN /\ k.tag = "Reset" =>
              t = "stream reset by " \o InitiatorText(k.initiator) \o ": "
                    \o ReasonText(k.reason)
         /\ (k.tag = "GoAway" /\ Len(k.debug_data) = 0) =>
              t = "go away from " \o InitiatorText(k.initiator) \o ": "
                    \o ReasonText(k.reason)
         /\ (k.tag = "GoAway" /\ Len(k.debug_data) > 0) =>
              t = "go away from " \o InitiatorText(k.initiator) \o ": "
                    \o ReasonText(k.reason) \o " ("
                    \o BytesDebug(k.debug_data) \o ")"
         /\ k.tag = "Reason" => t = "protocol error: " \o ReasonText(k.reason)
         /\ k.tag = "User" => t = "user error: " \o UserErrorText(k.e)
         /\ k.tag = "Io" => t = io_to_string(origin.fault)

W5_DisplayEmptyPayload ==
    /\ cur.fmt.called
    /\ Alive
    /\ err.kind.tag = "GoAway"
    /\ err.kind.debug_data = << >>
    /\ cur.fmt.res = "go away from remote: protocol error"

\* the Error of the example: GoAway, Local, NO_ERROR, payload 1 2 3
ExampleGoAway == Error(GoAway(<<1, 2, 3>>, "NO_ERROR", "Local"))

\* C6 as stated: the example GoAway displays as
\* go away from local: no error ([1, 2, 3]).
C6_PayloadAsList ==
    (cur.fmt.called /\ err = ExampleGoAway) =>
      cur.fmt.res = "go away from local: no error ([1, 2, 3])"

\* C6 amended: the example GoAway displays as
\* go away from local: no error (b"\x01\x02\x03"), the payload being rendered
\* as a byte-string literal.
C6_PayloadAsByteString ==
    (cur.fmt.called /\ err = ExampleGoAway) =>
      cur.fmt.res = "go away from local: no error (b\"\\x01\\x02\\x03\")"

W6_ExampleDisplayed ==
    /\ cur.fmt.called
    /\ err = ExampleGoAway
    /\ origin.path = "proto"

\* the heap as it was when the Error was built
OriginHeap == [a \in Arcs |-> [val |-> origin.fault, ext |-> 0]]

\* every observation of an Error
Observe(e, h) ==
    [reason |-> reason(e), is_io |-> is_io(e), get_io |-> get_io(e, h),
     fmt |-> fmt(e, h), into_io |-> into_io(e, h)]

\* C7: the Error built from SendError::Connection(e) is the Error built from
\* e: same Kind and payload, same reason(), is_io(), get_io(), into_io() and
\* Display.
C7_SendConnectionRoundTrip ==
    origin.path = "send_connection" =>
      /\ Alive => err = from_proto(origin.proto)
      /\ \A op \in DOMAIN cur :
           cur[op].called =>
             cur[op].res = Observe(from_proto(origin.proto), OriginHeap)[op]

W7_SendConnectionDisplayed ==
    /\ origin.path = "send_connection"
    /\ origin.proto.tag = "GoAway"
    /\ origin.proto.debug_data = <<104, 34, 10>>
    /\ cur.fmt.called
    /\ cur.reason.called

\* C8: the Error built from a user-error code u, directly or through
\* SendError::User(u), has Kind User(u): no reason, not io, Display
\* "user error: " and u's text; a send-path error has no Kind of its own and
\* the Kind of a connection error is the Kind of the error inside.
C8_UserErrorKind ==
    /\ err.kind.tag \in Kinds \cup {"Moved"}
    /\ (origin.path = "send_connection" /\ Alive) =>
         err.kind.tag = origin.proto.tag
    /\ origin.path \in {"user", "send_user"} =>
         /\ Alive => err = Error(User(origin.user))
         /\ cur.reason.called => cur.reason.res = None
         /\ cur.is_io.called => cur.is_io.res = FALSE
         /\ cur.get_io.called => cur.get_io.res = None
         /\ cur.into_io.called => cur.into_io.res = None
         /\ cur.fmt.called =>
              cur.fmt.res = "user error: " \o UserErrorText(origin.user)

W8_SendUserDisplayed ==
    /\ origin.path = "send_user"
    /\ cur.fmt.called
    /\ cur.reason.called
    /\ cur.into_io.called

\* C9: reason(), is_io(), get_io() and Display leave the Error, its origin and
\* the heap as they were and answer as on their first call; no operation on
\* the Error, into_io and the drop included, changes a fault another holder
\* still shares.
C9_ErrorIsImmutable ==
    [][/\ lastop' \in BorrowOps =>
            /\ err' = err
            /\ heap' = heap
            /\ origin' = origin
            /\ cur'[lastop'].res = first'[lastop'].res
       /\ lastop' \in BorrowOps \cup {"into_io", "drop"} =>
            \A a \in Arcs : heap[a].ext > 0 => heap'[a] = heap[a]]_vars

W9_SharedFaultAfterIntoIo ==
    /\ lastop = "into_io"
    /\ cur.get_io.called
    /\ cur.fmt.called
    /\ cur.into_io.res.some
    /\ \E a \in Arcs : heap[a].ext > 0 /\ heap[a].val = origin.fault

\* C10: reason() being Some and is_io() being true exclude each other; both
\* are false exactly for the Kinds Reason and User; the classes are
\* {Reset, GoAway}, {Io} and {Reason, User}.
C10_ThreeClasses ==
    (cur.reason.called /\ cur.is_io.called /\ Alive) =>
      LET rs == cur.reason.res.some
          io == cur.is_io.res
      IN /\ ~(rs /\ io)
         /\ (~rs /\ ~io) <=> err.kind.tag \in {"Reason", "User"}
         /\ rs <=> err.kind.tag \in {"Reset", "GoAway"}
         /\ io <=> err.kind.tag = "Io"

W10_IoClass ==
    /\ cur.reason.called
    /\ cur.is_io.called
    /\ Alive
    /\ cur.is_io.res
    /\ ~cur.reason.res.some

====
